---- MODULE Spec2Model ----
(***************************************************************************)
(* A model of SymproveCombined.py: the catalog normalizer                  *)
(* (extract_symprove_products), the listing scraper loop                   *)
(* (extract_amazon_products with safe_action) and the price extractor      *)
(* (extract_price).                                                        *)
(*                                                                         *)
(* Text is a sequence of one-character strings, so that the regular        *)
(* expressions and substring tests of the source are computed, not         *)
(* assumed.  A Python Optional[float] is a sequence of length 0 (None) or  *)
(* 1 (the value); prices are held in hundredths of a pound.  A JSON value  *)
(* is a record with a kind field k.                                        *)
(***************************************************************************)
EXTENDS Integers, Sequences, FiniteSets, TLC

\* ------------------------------------------------------------------ text

UpperCase == <<"A","B","C","D","E","F","G","H","I","J","K","L","M","N","O","P","Q","R","S","T","U","V","W","X","Y","Z">>
LowerCase == <<"a","b","c","d","e","f","g","h","i","j","k","l","m","n","o","p","q","r","s","t","u","v","w","x","y","z">>
UpperSet == {UpperCase[i] : i \in 1..Len(UpperCase)}
LowerSet == {LowerCase[i] : i \in 1..Len(LowerCase)}
Digits == {"0","1","2","3","4","5","6","7","8","9"}
LowerMap == [c \in UpperSet |-> LowerCase[CHOOSE i \in 1..Len(UpperCase) : UpperCase[i] = c]]

\* str.lower() on one character and on a text
Lower(c) == IF c \in UpperSet THEN LowerMap[c] ELSE c
LowerStr(s) == [i \in 1..Len(s) |-> Lower(s[i])]

\* the regex classes \w, \s and \d
IsWordChar(c) == c \in UpperSet \cup LowerSet \cup Digits \cup {"_"}
IsSpace(c) == c \in {" ", "\t", "\n", "\r"}
IsDigit(c) == c \in Digits

\* k occurs in s at position i
MatchAt(s, k, i) ==
    /\ i >= 1
    /\ i + Len(k) - 1 <= Len(s)
    /\ \A j \in 1..Len(k) : s[i + j - 1] = k[j]

\* Python's `k in s`
Contains(s, k) == \E i \in 1..(Len(s) - Len(k) + 1) : MatchAt(s, k, i)

\* the regex \b between positions i-1 and i of s
WordBoundary(s, i) ==
    (i > 1 /\ i - 1 <= Len(s) /\ IsWordChar(s[i - 1])) # (i >= 1 /\ i <= Len(s) /\ IsWordChar(s[i]))

\* re.search(r'\bw\b', s)
SearchWord(s, w) ==
    \E i \in 1..(Len(s) - Len(w) + 1) :
        MatchAt(s, w, i) /\ WordBoundary(s, i) /\ WordBoundary(s, i + Len(w))

\* every character of s in i..j is whitespace (the regex \s* spanning i..j)
AllSpace(s, i, j) == \A k \in i..j : IsSpace(s[k])

\* str.strip()
RECURSIVE LStrip(_)
LStrip(s) == IF s # <<>> /\ IsSpace(Head(s)) THEN LStrip(Tail(s)) ELSE s
RECURSIVE RStrip(_)
RStrip(s) == IF s # <<>> /\ IsSpace(s[Len(s)]) THEN RStrip(SubSeq(s, 1, Len(s) - 1)) ELSE s
Strip(s) == RStrip(LStrip(s))

\* sep.join(parts)
RECURSIVE Join(_, _)
Join(sep, parts) ==
    IF parts = <<>> THEN <<>>
    ELSE IF Len(parts) = 1 THEN parts[1]
    ELSE parts[1] \o sep \o Join(sep, Tail(parts))

\* the leftmost match of an alternation (a|b|...) in s: <<position, alternative>>,
\* or <<>> when none matches; at one position the first alternative wins
FirstAlt(s, alts) ==
    LET hits == {i \in 1..Len(s) : \E a \in 1..Len(alts) : MatchAt(s, alts[a], i)}
    IN  IF hits = {} THEN <<>>
        ELSE LET i == CHOOSE h \in hits : \A g \in hits : h <= g
                 a == CHOOSE b \in 1..Len(alts) :
                        /\ MatchAt(s, alts[b], i)
                        /\ \A c \in 1..(b - 1) : ~MatchAt(s, alts[c], i)
             IN  <<i, alts[a]>>

SeqToSet(s) == {s[i] : i \in 1..Len(s)}

\* ------------------------------------------------------------ constants

Pound == "£"
K_NA == <<"N","/","A">>
K_twin == <<"t","w","i","n">>
K_2pack == <<"2","p","a","c","k">>
K_2dpack == <<"2","-","p","a","c","k">>
K_double == <<"d","o","u","b","l","e">>
K_single == <<"s","i","n","g","l","e">>
K_1pack == <<"1","p","a","c","k">>
K_1dpack == <<"1","-","p","a","c","k">>
K_packof1 == <<"p","a","c","k"," ","o","f"," ","1">>
K_2x == <<"2","x">>
K_2sx == <<"2"," ","x">>
K_1x == <<"1","x">>
K_1sx == <<"1"," ","x">>
K_pack == <<"p","a","c","k">>
K_x == <<"x">>
K_ml == <<"m","l">>
K_TwinPack == <<"T","w","i","n"," ","P","a","c","k">>
K_SinglePack == <<"S","i","n","g","l","e"," ","P","a","c","k">>
K_subscribe == <<"s","u","b","s","c","r","i","b","e">>
K_subscription == <<"s","u","b","s","c","r","i","p","t","i","o","n">>
K_subsave == <<"s","u","b","s","c","r","i","b","e"," ","&"," ","s","a","v","e">>
K_save == <<"s","a","v","e">>
K_autoship == <<"a","u","t","o","s","h","i","p">>
K_recurring == <<"r","e","c","u","r","r","i","n","g">>
K_onetime == <<"o","n","e","-","t","i","m","e">>
K_one_time == <<"o","n","e"," ","t","i","m","e">>
K_oneoff == <<"o","n","e","-","o","f","f">>
K_nonsub == <<"n","o","n","-","s","u","b">>
K_oneoff2 == <<"o","n","e","o","f","f">>
K_flavour == <<"f","l","a","v","o","u","r">>
K_flavor == <<"f","l","a","v","o","r">>
K_taste == <<"t","a","s","t","e">>
K_variant == <<"v","a","r","i","a","n","t">>
K_original == <<"o","r","i","g","i","n","a","l">>
K_mango == <<"m","a","n","g","o">>
K_strawberry == <<"s","t","r","a","w","b","e","r","r","y">>
K_raspberry == <<"r","a","s","p","b","e","r","r","y">>
K_pineapple == <<"p","i","n","e","a","p","p","l","e">>
K_lemon == <<"l","e","m","o","n">>
K_tropical == <<"t","r","o","p","i","c","a","l">>
K_berry == <<"b","e","r","r","y">>
K_apple == <<"a","p","p","l","e">>
K_orange == <<"o","r","a","n","g","e">>
K_Default == <<"D","e","f","a","u","l","t">>
K_Option == <<"O","p","t","i","o","n">>
K_option1 == <<"o","p","t","i","o","n","1">>
K_option2 == <<"o","p","t","i","o","n","2">>
K_option3 == <<"o","p","t","i","o","n","3">>
K_foc == <<"f","o","c">>
K_marketing == <<"m","a","r","k","e","t","i","n","g">>
K_pr == <<"p","r">>
K_shot == <<"s","h","o","t">>
K_glass == <<"g","l","a","s","s">>
K_daily == <<"d","a","i","l","y">>
K_dailyessential == <<"d","a","i","l","y","-","e","s","s","e","n","t","i","a","l">>
K_on == <<"o","n">>
K_the == <<"t","h","e">>
K_go == <<"g","o">>
K_Both == <<"B","o","t","h">>
K_SubOnly == <<"S","u","b","s","c","r","i","p","t","i","o","n"," ","o","n","l","y">>
K_OneOnly == <<"O","n","e","-","t","i","m","e"," ","o","n","l","y">>
K_PackBased == <<"P","a","c","k","-","b","a","s","e","d">>
K_OnTheGo == <<"O","n","e","-","t","i","m","e"," ","(","O","n"," ","T","h","e"," ","G","o",")">>
K_UrlBase == <<"h","t","t","p","s",":","/","/","w","w","w",".","s","y","m","p","r","o","v","e",".","c","o","m","/","p","r","o","d","u","c","t","s","/">>
K_Ellipsis == <<".",".",".">>
K_CommaSpace == <<","," ">>

SubKeywords == <<K_subscribe, K_subscription, K_subsave, K_save, K_autoship, K_recurring>>
OneKeywords == <<K_onetime, K_one_time, K_oneoff, K_single, K_nonsub, K_oneoff2>>
FlavourNameWords == <<K_flavour, K_flavor, K_taste, K_variant>>
FlavourWords == <<K_original, K_mango, K_strawberry, K_raspberry, K_pineapple, K_lemon, K_tropical, K_berry, K_apple, K_orange>>
PackAlts == <<K_single, K_twin, K_2x, K_2sx, K_1x, K_1sx>>
DefaultOptionNames == <<K_option1, K_option2, K_option3>>

\* ------------------------------------------------------- pure functions

None == <<>>
Some(x) == <<x>>
\* Python truthiness of an Optional[float]: None and 0.0 are falsy
Truthy(p) == p # None /\ p[1] # 0

DigitChars == <<"0","1","2","3","4","5","6","7","8","9">>
DigitVal(c) == (CHOOSE n \in 1..10 : DigitChars[n] = c) - 1
RECURSIVE DigitsToNat(_)
DigitsToNat(ds) ==
    IF ds = <<>> THEN 0 ELSE DigitsToNat(SubSeq(ds, 1, Len(ds) - 1)) * 10 + DigitVal(ds[Len(ds)])
RECURSIVE NatToDigits(_)
NatToDigits(n) ==
    IF n < 10 THEN <<DigitChars[n + 1]>> ELSE NatToDigits(n \div 10) \o <<DigitChars[(n % 10) + 1]>>

\* the strings float() accepts among those the feed carries: digits with at
\* most one point and at least one digit (surrounding whitespace allowed)
IsDecimal(s) ==
    /\ \A i \in 1..Len(s) : IsDigit(s[i]) \/ s[i] = "."
    /\ \E i \in 1..Len(s) : IsDigit(s[i])
    /\ Cardinality({i \in 1..Len(s) : s[i] = "."}) <= 1

\* float(s) of a decimal with at most two fractional digits, in hundredths
DecimalValue(s) ==
    LET dots == {i \in 1..Len(s) : s[i] = "."}
        dot  == IF dots = {} THEN Len(s) + 1 ELSE CHOOSE i \in dots : TRUE
        whole == SubSeq(s, 1, dot - 1)
        frac  == SubSeq(s, dot + 1, Len(s))
        frac2 == IF Len(frac) = 0 THEN <<"0","0">>
                 ELSE IF Len(frac) = 1 THEN frac \o <<"0">>
                 ELSE SubSeq(frac, 1, 2)
    IN  DigitsToNat(whole) * 100 + DigitsToNat(frac2)

RECURSIVE KeepDigitsAndDots(_)
KeepDigitsAndDots(s) ==
    IF s = <<>> THEN <<>>
    ELSE IF IsDigit(Head(s)) \/ Head(s) = "." THEN <<Head(s)>> \o KeepDigitsAndDots(Tail(s))
    ELSE KeepDigitsAndDots(Tail(s))

\* parse_float_safe(v), v a JSON value
parse_float_safe(v) ==
    IF v.k \in {"null", "missing"} THEN None
    ELSE IF v.k = "num" THEN Some(v.v)
    ELSE IF v.v = <<>> THEN None
    ELSE IF IsDecimal(Strip(v.v)) THEN Some(DecimalValue(Strip(v.v)))
    ELSE LET v2 == KeepDigitsAndDots(v.v)
         IN  IF v2 # <<>> /\ IsDecimal(v2) THEN Some(DecimalValue(v2)) ELSE None

\* fmt(p): "N/A" for None, else the pound sign and two decimals
fmt(p) ==
    IF p = None THEN K_NA
    ELSE <<Pound>> \o NatToDigits(p[1] \div 100) \o <<".">>
         \o <<DigitChars[((p[1] % 100) \div 10) + 1], DigitChars[(p[1] % 10) + 1]>>

\* normalize_pack_text(text); a None text is the empty text (both are falsy)
normalize_pack_text(text) ==
    IF text = <<>> THEN K_NA
    ELSE LET t == LowerStr(text)
             m == FirstAlt(t, PackAlts)
         IN  IF SearchWord(t, K_twin) \/ SearchWord(t, K_2pack) \/ SearchWord(t, K_2dpack)
                   \/ SearchWord(t, K_double)
             THEN K_TwinPack
             ELSE IF SearchWord(t, K_single) \/ SearchWord(t, K_1pack) \/ SearchWord(t, K_1dpack)
                   \/ Contains(t, K_packof1)
             THEN K_SinglePack
             ELSE IF m # <<>>
             THEN IF Contains(m[2], K_twin) \/ Contains(m[2], <<"2">>) THEN K_TwinPack
                  ELSE K_SinglePack
             ELSE Strip(text)

\* any(k in t for k in keywords)
AnyKeyword(t, keywords) == \E i \in 1..Len(keywords) : Contains(t, keywords[i])

\* an option map is a sequence of <<name, value>> pairs with distinct names,
\* in insertion order (a Python dict)
ExplicitBy(text, option_map, keywords) ==
    \/ AnyKeyword(LowerStr(text), keywords)
    \/ \E i \in 1..Len(option_map) :
          /\ option_map[i][2] # <<>>
          /\ AnyKeyword(LowerStr(option_map[i][1] \o <<" ">> \o option_map[i][2]), keywords)

is_explicit_subscription(text, option_map) == ExplicitBy(text, option_map, SubKeywords)
is_explicit_onetime(text, option_map) == ExplicitBy(text, option_map, OneKeywords)

\* ----------------------------------------------------------- JSON values

JNull == [k |-> "null"]
JMissing == [k |-> "missing"]
JStr(s) == [k |-> "str", v |-> s]
JNum(n) == [k |-> "num", v |-> n]
JList(xs) == [k |-> "list", v |-> xs]
\* an entry of "options" that is an object with a "name"
JOption(name) == [k |-> "dict", name |-> name]

\* d.get(key) or "" for a string field
GetOrEmpty(v) == IF v.k = "str" THEN v.v ELSE <<>>

SetMax(S) == CHOOSE x \in S : \A y \in S : y <= x
SetMin(S) == CHOOSE x \in S : \A y \in S : x <= y

\* ------------------------------------------ extract_symprove_products

DescMax == 400

\* re.search(r'\b(foc|marketing|pr)\b', s, re.I)
PromoMatch(s) ==
    LET t == LowerStr(s)
    IN  SearchWord(t, K_foc) \/ SearchWord(t, K_marketing) \/ SearchWord(t, K_pr)

\* re.search(r'shot\s*glass', s, re.I)
ShotGlassMatch(s) ==
    LET t == LowerStr(s)
    IN  \E i \in 1..Len(t) : \E j \in (i + Len(K_shot))..Len(t) :
          /\ MatchAt(t, K_shot, i)
          /\ AllSpace(t, i + Len(K_shot), j - 1)
          /\ MatchAt(t, K_glass, j)

\* re.search(r'\bdaily\b|\bdaily-essential\b', s, re.I)
DailyMatch(s) ==
    LET t == LowerStr(s)
    IN  SearchWord(t, K_daily) \/ SearchWord(t, K_dailyessential)

\* re.search(r'\bon\s*the\s*go\b', s, re.I)
OnTheGoMatch(s) ==
    LET t == LowerStr(s)
    IN  \E i \in 1..Len(t) : \E j \in (i + Len(K_on))..Len(t) : \E m \in (j + Len(K_the))..Len(t) :
          /\ MatchAt(t, K_on, i) /\ WordBoundary(t, i)
          /\ AllSpace(t, i + Len(K_on), j - 1)
          /\ MatchAt(t, K_the, j)
          /\ AllSpace(t, j + Len(K_the), m - 1)
          /\ MatchAt(t, K_go, m) /\ WordBoundary(t, m + Len(K_go))

\* re.search(r'flavour|flavor|taste|variant', oname, re.I)
FlavourNameMatch(oname) == AnyKeyword(LowerStr(oname), FlavourNameWords)

\* re.search(r'(single|twin|pack|\d+\s*x|\d+\s*ml)', val, re.I)
DigitsThen(t, k) ==
    \E i \in 1..Len(t) : \E j \in (i + 1)..Len(t) :
        IsDigit(t[i]) /\ AllSpace(t, i + 1, j - 1) /\ MatchAt(t, k, j)
PackPatternMatch(val) ==
    LET t == LowerStr(val)
    IN  \/ Contains(t, K_single) \/ Contains(t, K_twin) \/ Contains(t, K_pack)
        \/ DigitsThen(t, K_x) \/ DigitsThen(t, K_ml)

\* prod.get("title", "N/A") and prod.get("handle", ""), when they are not null
ProductName(prod) == IF prod.title.k = "missing" THEN K_NA ELSE prod.title.v
ProductHandle(prod) == IF prod.handle.k = "missing" THEN <<>> ELSE prod.handle.v

\* line 379 raises TypeError: re.search is handed None (the handle is only
\* searched when the name did not match)
FilterRaises(prod) ==
    IF prod.title.k = "null" THEN TRUE
    ELSE IF PromoMatch(ProductName(prod)) THEN FALSE
    ELSE prod.handle.k = "null"

\* a filter that looks at the name alone
IsPromotionalByName(prod) ==
    IF FilterRaises(prod) THEN FALSE
    ELSE PromoMatch(ProductName(prod))

IsPromotional(prod) ==
    IF FilterRaises(prod) THEN FALSE
    ELSE IF PromoMatch(ProductName(prod)) THEN TRUE
    ELSE PromoMatch(ProductHandle(prod))

\* lines 387 and 399 raise TypeError: iteration over None
BodyRaises(prod) == prod.images.k = "null" \/ prod.variants.k = "null"

\* one iteration of the product loop raises
IterationRaises(prod) ==
    IF FilterRaises(prod) THEN TRUE
    ELSE IF IsPromotional(prod) THEN FALSE
    ELSE BodyRaises(prod)

\* re.sub("<.*?>", "", raw)
RECURSIVE StripTags(_)
StripTags(s) ==
    IF s = <<>> THEN <<>>
    ELSE LET closes == {j \in 2..Len(s) : s[j] = ">" /\ \A i \in 2..(j - 1) : s[i] # "\n"}
         IN  IF Head(s) = "<" /\ closes # {}
             THEN StripTags(SubSeq(s, SetMin(closes) + 1, Len(s)))
             ELSE <<Head(s)>> \o StripTags(Tail(s))

Description(prod) ==
    LET stripped == Strip(StripTags(GetOrEmpty(prod.body_html)))
        desc == IF stripped = <<>> THEN ProductName(prod) ELSE stripped
    IN  IF Len(desc) > DescMax THEN SubSeq(desc, 1, DescMax) \o K_Ellipsis ELSE desc

\* ", ".join(img.get("src") for img in images if img.get("src"))
ImagesStr(prod) ==
    LET imgs == IF prod.images.k = "list" THEN prod.images.v ELSE <<>>
        srcs == SelectSeq([i \in 1..Len(imgs) |-> GetOrEmpty(imgs[i])], LAMBDA s : s # <<>>)
    IN  Join(K_CommaSpace, srcs)

Url(prod) == K_UrlBase \o ProductHandle(prod)

\* option_names (lines 390-396)
OptionNames(prod) ==
    LET raw == IF prod.options.k = "list" THEN prod.options.v ELSE <<>>
    IN  [i \in 1..Len(raw) |->
            IF raw[i].k = "dict"
            THEN (IF GetOrEmpty(raw[i].name) = <<>> THEN K_Option ELSE raw[i].name.v)
            ELSE raw[i].v]

\* option_map[name] = val on a dict kept in insertion order
DictSet(m, name, val) ==
    IF \E i \in 1..Len(m) : m[i][1] = name
    THEN [i \in 1..Len(m) |-> IF m[i][1] = name THEN <<name, val>> ELSE m[i]]
    ELSE Append(m, <<name, val>>)

OptionName(option_names, idx) ==
    IF idx <= Len(option_names) THEN option_names[idx] ELSE DefaultOptionNames[idx]

OptionMap(option_names, variant) ==
    DictSet(DictSet(DictSet(<<>>,
        OptionName(option_names, 1), GetOrEmpty(variant.option1)),
        OptionName(option_names, 2), GetOrEmpty(variant.option2)),
        OptionName(option_names, 3), GetOrEmpty(variant.option3))

\* one entry of variant_list (lines 399-421)
BuildVariant(pname, option_names, variant) ==
    LET option_map == OptionMap(option_names, variant)
        vtitle == Strip(GetOrEmpty(variant.title))
        combined == Strip(Join(<<" ">>,
                       <<pname, vtitle>> \o [i \in 1..Len(option_map) |-> option_map[i][2]]))
    IN  [combined |-> combined,
         options |-> option_map,
         title |-> vtitle,
         price |-> parse_float_safe(variant.price),
         explicit_sub |-> is_explicit_subscription(combined, option_map),
         explicit_one |-> is_explicit_onetime(combined, option_map)]

VariantList(prod) ==
    LET raw == IF prod.variants.k = "list" THEN prod.variants.v ELSE <<>>
        names == OptionNames(prod)
    IN  [i \in 1..Len(raw) |-> BuildVariant(ProductName(prod), names, raw[i])]

\* the value of the first option with a flavour-like name and a non-empty
\* value, or <<>> (lines 426-429 and 465-468)
FlavourOption(v) ==
    LET hits == {i \in 1..Len(v.options) :
                    v.options[i][2] # <<>> /\ FlavourNameMatch(v.options[i][1])}
    IN  IF hits = {} THEN <<>> ELSE v.options[SetMin(hits)][2]

\* pack_candidate (lines 431-437); None is the empty text
PackCandidate(v) ==
    LET hits == {i \in 1..Len(v.options) :
                    v.options[i][2] # <<>> /\ PackPatternMatch(v.options[i][2])}
    IN  IF hits # {} /\ Strip(v.options[SetMin(hits)][2]) # <<>>
        THEN Strip(v.options[SetMin(hits)][2])
        ELSE v.title

MakeRow(prod, flavour, one_price, subs_price, purchase_type, pack) ==
    [ProductName |-> ProductName(prod),
     Description |-> Description(prod),
     FlavourName |-> flavour,
     OneTimePrice |-> fmt(one_price),
     SubscriptionPrice |-> fmt(subs_price),
     PurchaseType |-> purchase_type,
     Pack |-> pack,
     ProductImages |-> ImagesStr(prod),
     URL |-> Url(prod)]

\* the row of one variant of a shot-glass product (lines 424-459)
ShotGlassRow(prod, v) ==
    MakeRow(prod,
            IF FlavourOption(v) = <<>> THEN K_Default ELSE FlavourOption(v),
            v.price, None, K_PackBased,
            normalize_pack_text(PackCandidate(v)))

\* one row per flavour: the first variant of each
ShotGlassRowsByFlavour(prod) ==
    LET vl == VariantList(prod)
        first == {i \in 1..Len(vl) :
                    \A j \in 1..(i - 1) : FlavourOption(vl[j]) # FlavourOption(vl[i])}
        kept == SelectSeq([i \in 1..Len(vl) |-> i], LAMBDA i : i \in first)
    IN  [n \in 1..Len(kept) |-> ShotGlassRow(prod, vl[kept[n]])]

ShotGlassRows(prod) ==
    LET vl == VariantList(prod)
    IN  [i \in 1..Len(vl) |-> ShotGlassRow(prod, vl[i])]

\* the group key of a variant (lines 464-472)
FlavourKey(v) ==
    LET flavour == IF FlavourOption(v) = <<>> THEN K_Default ELSE FlavourOption(v)
        m == FirstAlt(LowerStr(v.combined), FlavourWords)
    IN  IF flavour = K_Default /\ m # <<>>
        THEN SubSeq(v.combined, m[1], m[1] + Len(m[2]) - 1)
        ELSE flavour

\* groups: a defaultdict(list) in insertion order, a sequence of <<key, variants>>
RECURSIVE GroupsFrom(_, _)
GroupsFrom(groups, vl) ==
    IF vl = <<>> THEN groups
    ELSE LET v == Head(vl)
             key == FlavourKey(v)
             next == IF \E i \in 1..Len(groups) : groups[i][1] = key
                     THEN [i \in 1..Len(groups) |->
                             IF groups[i][1] = key THEN <<key, Append(groups[i][2], v)>>
                             ELSE groups[i]]
                     ELSE Append(groups, <<key, <<v>> >>)
         IN  GroupsFrom(next, Tail(vl))

Groups(prod) == GroupsFrom(<<>>, VariantList(prod))

\* [v["price"] for v in vs if v["price"]], as a set
TruthyPrices(vs) == {vs[i].price[1] : i \in {j \in 1..Len(vs) : Truthy(vs[j].price)}}
\* set(v["price"] for v in vs if v["price"] is not None)
NonNullPrices(vs) == {vs[i].price[1] : i \in {j \in 1..Len(vs) : vs[j].price # None}}

\* subs_price and one_price after lines 476-485
ExplicitSubsPrice(gvars) ==
    LET explicit_subs == SelectSeq(gvars, LAMBDA v : v.explicit_sub)
        prices == TruthyPrices(explicit_subs)
    IN  IF explicit_subs # <<>> /\ prices # {} THEN Some(SetMax(prices)) ELSE None

ExplicitOnePrice(gvars) ==
    LET explicit_ones == SelectSeq(gvars, LAMBDA v : v.explicit_one)
        prices == TruthyPrices(explicit_ones)
    IN  IF explicit_ones # <<>> /\ prices # {} THEN Some(SetMin(prices)) ELSE None

ProductIsDaily(prod) == DailyMatch(ProductName(prod)) \/ DailyMatch(ProductHandle(prod))

\* an override that only fills in the prices the explicit flags left open
DailyOverrideWhenUnflagged(prod, gvars, subs_price, one_price) ==
    LET group_prices == NonNullPrices(gvars)
    IN  IF ProductIsDaily(prod) /\ Cardinality(group_prices) = 2
        THEN <<IF subs_price = None THEN Some(SetMax(group_prices)) ELSE subs_price,
               IF one_price = None THEN Some(SetMin(group_prices)) ELSE one_price>>
        ELSE <<subs_price, one_price>>

\* the daily override (lines 487-490): <<subs_price, one_price>>
DailyOverride(prod, gvars, subs_price, one_price) ==
    LET group_prices == NonNullPrices(gvars)
    IN  IF ProductIsDaily(prod) /\ Cardinality(group_prices) = 2
        THEN <<Some(SetMax(group_prices)), Some(SetMin(group_prices))>>
        ELSE <<subs_price, one_price>>

\* purchase_type of lines 498-504
PurchaseType(one_price, subs_price) ==
    IF Truthy(one_price) /\ Truthy(subs_price) THEN K_Both
    ELSE IF Truthy(subs_price) THEN K_SubOnly
    ELSE K_OneOnly

\* the on-the-go price of lines 493-494
OnTheGoPrice(gvars) ==
    LET single_prices == TruthyPrices(gvars)
    IN  IF single_prices # {} THEN Some(SetMin(single_prices)) ELSE None

GroupPack(gvars) ==
    normalize_pack_text(Join(<<>>, [i \in 1..Len(gvars) |-> gvars[i].title]))

\* the row of one flavour group (lines 475-525)
GroupRow(prod, flavour_name, gvars) ==
    LET daily == DailyOverride(prod, gvars, ExplicitSubsPrice(gvars), ExplicitOnePrice(gvars))
    IN  IF OnTheGoMatch(ProductName(prod))
        THEN MakeRow(prod, flavour_name, OnTheGoPrice(gvars), None, K_OnTheGo, GroupPack(gvars))
        ELSE MakeRow(prod, flavour_name, daily[2], daily[1],
                     PurchaseType(daily[2], daily[1]), GroupPack(gvars))

GroupRows(prod) ==
    LET groups == Groups(prod)
    IN  [i \in 1..Len(groups) |-> GroupRow(prod, groups[i][1], groups[i][2])]

\* the rows one iteration of the product loop appends (lines 376-525)
ProductRows(prod) ==
    IF IsPromotional(prod) THEN <<>>
    ELSE IF ShotGlassMatch(ProductName(prod)) THEN ShotGlassRows(prod)
    ELSE GroupRows(prod)

\* ------------------------------------------------- the feeds of the model

\* bounds of the model
MaxVariants == 2
MaxTail == 1

T_DailyEssential == <<"D","a","i","l","y"," ","E","s","s","e","n","t","i","a","l">>
T_OnTheGo == <<"S","y","m","p","r","o","v","e"," ","O","n"," ","T","h","e"," ","G","o">>
T_DailyOnTheGo == <<"D","a","i","l","y"," ","O","n"," ","T","h","e"," ","G","o">>
T_ShotGlass == <<"S","h","o","t"," ","G","l","a","s","s"," ","M","a","n","g","o"," ","T","w","i","n">>
T_Original == <<"S","y","m","p","r","o","v","e"," ","O","r","i","g","i","n","a","l">>
T_PRShotGlass == <<"P","R"," ","S","h","o","t"," ","G","l","a","s","s">>
H_Daily == <<"d","a","i","l","y","-","e","s","s","e","n","t","i","a","l">>
H_Plain == <<"s","y","m","p","r","o","v","e">>
H_Foc == <<"f","o","c","-","s","a","m","p","l","e">>
V_OneTime == <<"O","n","e","-","t","i","m","e">>
V_Subscribe == <<"S","u","b","s","c","r","i","b","e">>
V_TwinPack == <<"T","w","i","n"," ","P","a","c","k">>
V_Single == <<"S","i","n","g","l","e">>
V_SubOne == <<"S","u","b","s","c","r","i","b","e"," ","O","n","e","-","t","i","m","e">>
O_Mango == <<"M","a","n","g","o">>
O_Original == <<"O","r","i","g","i","n","a","l">>
O_Default == <<"D","e","f","a","u","l","t">>
O_Size == <<"2"," ","x"," ","5","0","0","m","l">>
N_Flavour == <<"F","l","a","v","o","u","r">>
N_Size == <<"S","i","z","e">>
P_20 == <<"2","0",".","0","0">>
P_18 == <<"1","8",".","0","0">>
P_0 == <<"0",".","0","0">>
P_Pound999 == <<"£","9",".","9","9">>
B_Html == <<"<","p",">","G","u","t","<","/","p",">">>
I_Src == <<"a",".","p","n","g">>

Variant(title, price, option1, option2) ==
    [title |-> title, price |-> price, option1 |-> option1, option2 |-> option2,
     option3 |-> JMissing]

\* the variants a product of the feed is built from
FeedVariants == {
    Variant(JStr(V_OneTime), JStr(P_20), JStr(O_Mango), JMissing),
    Variant(JStr(V_Subscribe), JStr(P_18), JStr(O_Mango), JMissing),
    Variant(JStr(V_Subscribe), JStr(P_0), JStr(O_Mango), JNull),
    Variant(JStr(V_OneTime), JNum(0), JNull, JNull),
    Variant(JStr(V_TwinPack), JStr(P_18), JNull, JMissing),
    Variant(JNull, JNull, JStr(O_Mango), JMissing),
    Variant(JStr(V_Single), JNum(2000), JStr(O_Original), JStr(O_Size)),
    Variant(JStr(V_SubOne), JStr(P_Pound999), JMissing, JMissing),
    Variant(JStr(V_OneTime), JStr(P_20), JStr(O_Default), JMissing) }

RECURSIVE SeqsUpTo(_, _)
SeqsUpTo(S, n) ==
    IF n = 0 THEN {<<>>}
    ELSE LET shorter == SeqsUpTo(S, n - 1)
         IN  shorter \cup {Append(s, x) : s \in shorter, x \in S}

VariantLists == SeqsUpTo(FeedVariants, MaxVariants)

Head_(title, handle, body_html, images, options) ==
    [title |-> title, handle |-> handle, body_html |-> body_html, images |-> images,
     options |-> options]

OptsFlavourSize == JList(<<JOption(JStr(N_Flavour)), JOption(JStr(N_Size))>>)
OptsStrings == JList(<<JStr(N_Flavour)>>)
OptsUnnamed == JList(<<JOption(JNull), JOption(JMissing)>>)
OneImage == JList(<<JStr(I_Src), JNull>>)

\* the product-level fields of the feed's products, well-formed ...
WellFormedHeads == {
    Head_(JStr(T_DailyEssential), JStr(H_Daily), JStr(B_Html), OneImage, OptsFlavourSize),
    Head_(JStr(T_OnTheGo), JStr(H_Plain), JStr(B_Html), OneImage, OptsFlavourSize),
    Head_(JStr(T_DailyOnTheGo), JStr(H_Plain), JStr(B_Html), OneImage, OptsFlavourSize),
    Head_(JStr(T_ShotGlass), JStr(H_Plain), JStr(B_Html), OneImage, OptsFlavourSize),
    Head_(JStr(T_Original), JStr(H_Daily), JStr(B_Html), OneImage, OptsStrings),
    Head_(JStr(T_Original), JStr(H_Plain), JStr(B_Html), OneImage, JMissing),
    Head_(JStr(T_DailyOnTheGo), JStr(H_Foc), JStr(B_Html), OneImage, OptsFlavourSize),
    Head_(JStr(T_PRShotGlass), JStr(H_Plain), JStr(B_Html), OneImage, OptsFlavourSize) }

\* ... and with fields missing or null
SparseHeads == {
    Head_(JMissing, JMissing, JNull, JMissing, JNull),
    Head_(JStr(T_DailyEssential), JStr(H_Plain), JMissing, JList(<<>>), OptsUnnamed),
    Head_(JNull, JStr(H_Plain), JStr(B_Html), OneImage, OptsFlavourSize),
    Head_(JStr(T_Original), JNull, JStr(B_Html), OneImage, OptsFlavourSize),
    Head_(JStr(T_PRShotGlass), JNull, JStr(B_Html), OneImage, OptsFlavourSize),
    Head_(JStr(T_Original), JStr(H_Plain), JStr(B_Html), JNull, OptsFlavourSize) }

Heads == WellFormedHeads \cup SparseHeads

Product(head, variants) ==
    [title |-> head.title, handle |-> head.handle, body_html |-> head.body_html,
     images |-> head.images, options |-> head.options, variants |-> variants]

Products ==
    {Product(h, JList(vs)) : h \in Heads, vs \in VariantLists}
    \cup {Product(h, vv) : h \in Heads, vv \in {JNull, JMissing}}

\* the products that may follow the first one in the feed
Followers == {
    Product(Head_(JStr(T_Original), JStr(H_Plain), JStr(B_Html), OneImage, OptsFlavourSize),
            JList(<<Variant(JStr(V_Subscribe), JStr(P_18), JStr(O_Mango), JMissing)>>)) }

\* the JSON documents a 200 response may carry
Feeds ==
    {JList(<<p>> \o tail) : p \in Products, tail \in SeqsUpTo(Followers, MaxTail)}
    \cup {JList(<<>>), JMissing, JNull}

\* r.json().get("products", [])
FeedProducts(f) == IF f.k = "list" THEN f.v ELSE <<>>

\* -------------------------------------------------------- extract_price

X_Price == <<"£","1","8",".","8","5">>
X_PriceSp == <<"F","r","o","m"," ","£"," ","1",",","2","3","4",".","5","0"," ","e","a","c","h">>
X_NoCur == <<"1","8",".","8","5"," ","o","n","l","y">>
X_See == <<"S","e","e"," ","b","u","y","i","n","g"," ","o","p","t","i","o","n","s">>
X_Body == <<"N","o","w"," ","o","n","l","y"," ","£","1","2",".","4","9","!">>
K_SeeBuyingOptions == <<"S","e","e"," ","B","u","y","i","n","g"," ","O","p","t","i","o","n","s">>
K_seebuying == <<"S","e","e"," ","b","u","y","i","n","g"," ","o","p","t","i","o","n","s">>
A_One == <<"B","0","0","1","A">>
A_Two == <<"B","0","0","2","B">>
A_Short == <<" ","B","7"," ">>
K_BaseUrl == <<"h","t","t","p","s",":","/","/","w","w","w",".","a","m","a","z","o","n",".","c","o",".","u","k">>
K_dp == <<"/","d","p","/">>

\* the outcome of a DOM query: no element, an exception (from the query or from
\* inner_text), or an element with its inner text
QNone == [q |-> "none"]
QRaise == [q |-> "raise"]
QText(t) == [q |-> "el", text |-> t]
\* the element of the "One-time purchase" block, with the outcomes of the
\* three candidate queries inside it
QBlock(cands) == [q |-> "el", cands |-> cands]

RECURSIVE SkipWhile(_, _, _)
SkipWhile(txt, i, class) ==
    IF i <= Len(txt) /\ txt[i] \in class THEN SkipWhile(txt, i + 1, class) ELSE i

SpaceChars == {" ", "\t", "\n", "\r"}

\* the positions where r'£\s*\d' matches
CurrencyStarts(txt) ==
    {i \in 1..Len(txt) :
        /\ txt[i] = Pound
        /\ SkipWhile(txt, i + 1, SpaceChars) <= Len(txt)
        /\ IsDigit(txt[SkipWhile(txt, i + 1, SpaceChars)])}

\* re.search(r'£\s*\d', txt)
HasCurrencyDigit(txt) == CurrencyStarts(txt) # {}

\* re.search(r'£\s*\d{1,3}(?:[,\d]*)(?:\.\d+)?', txt): None or the match
PriceSearch(txt) ==
    IF CurrencyStarts(txt) = {} THEN None
    ELSE LET i == SetMin(CurrencyStarts(txt))
             d == SkipWhile(txt, i + 1, SpaceChars)
             run == SkipWhile(txt, d, Digits)
             e1 == IF run - d > 3 THEN d + 3 ELSE run
             e2 == SkipWhile(txt, e1, Digits \cup {","})
             e3 == IF e2 + 1 <= Len(txt) /\ txt[e2] = "." /\ IsDigit(txt[e2 + 1])
                   THEN SkipWhile(txt, e2 + 1, Digits)
                   ELSE e2
         IN  Some(SubSeq(txt, i, e3 - 1))

NumCandidates == 3
NumSelectors == 12

\* strategy 1 (lines 111-133): the first candidate inside the block whose
\* text holds a price; an exception anywhere yields nothing
OneTimeYield(page) ==
    IF page.oneTime.q # "el" THEN None
    ELSE LET c == page.oneTime.cands
             hits == {i \in 1..NumCandidates :
                        c[i].q = "el" /\ PriceSearch(Strip(c[i].text)) # None}
         IN  IF hits = {} THEN None ELSE PriceSearch(Strip(c[SetMin(hits)].text))

\* try_selector(sel) for the i-th selector of the list (lines 97-108)
try_selector(page, i) ==
    LET o == page.selectors[i]
    IN  IF o.q = "el" /\ Strip(o.text) # <<>> /\ HasCurrencyDigit(Strip(o.text))
        THEN (IF PriceSearch(Strip(o.text)) # None THEN PriceSearch(Strip(o.text))
              ELSE Some(Strip(o.text)))
        ELSE None

\* strategy 3 (lines 156-163)
BuyingOptionsYield(page) ==
    LET see == IF page.offerLink.q = "none" THEN page.colorPrice ELSE page.offerLink
    IN  IF see.q = "el" /\ Contains(Strip(see.text), K_seebuying)
        THEN Some(K_SeeBuyingOptions)
        ELSE None

\* strategy 4 (lines 166-172)
BodyYield(page) == IF page.body.q = "el" THEN PriceSearch(page.body.text) ELSE None

\* the strategies in the order of the source: 0 the one-time block,
\* 1..NumSelectors the selectors, then the buying options and the body
BuyingStep == NumSelectors + 1
BodyStep == NumSelectors + 2
StrategyYield(page, k) ==
    IF k = 0 THEN OneTimeYield(page)
    ELSE IF k <= NumSelectors THEN try_selector(page, k)
    ELSE IF k = BuyingStep THEN BuyingOptionsYield(page)
    ELSE BodyYield(page)

\* extract_price(page) as a function: the first yield, else "N/A"
ExtractPrice(page) ==
    LET hits == {k \in 0..BodyStep : StrategyYield(page, k) # None}
    IN  IF hits = {} THEN K_NA ELSE StrategyYield(page, SetMin(hits))[1]

\* bound: how many of the selectors of strategy 2 find an element or raise
MaxLive == 1

SelectorOutcomes == {QRaise, QText(X_PriceSp), QText(X_NoCur)}
AllNone == [i \in 1..NumSelectors |-> QNone]
RECURSIVE SelectorLists(_)
SelectorLists(n) ==
    IF n = 0 THEN {AllNone}
    ELSE LET fewer == SelectorLists(n - 1)
         IN  fewer \cup {[s EXCEPT ![i] = o] : s \in fewer, i \in 1..NumSelectors,
                                               o \in SelectorOutcomes}

OneTimeOutcomes == {
    QNone, QRaise,
    QBlock(<<QNone, QNone, QNone>>),
    QBlock(<<QText(X_NoCur), QRaise, QText(X_PriceSp)>>),
    QBlock(<<QNone, QText(X_Price), QText(X_PriceSp)>>) }

BuyingOutcomes == {
    <<QNone, QNone>>, <<QRaise, QText(X_See)>>, <<QText(X_See), QNone>>,
    <<QText(X_NoCur), QText(X_See)>>, <<QNone, QText(X_See)>> }

BodyOutcomes == {QRaise, QText(X_Body), QText(X_NoCur)}

Pages ==
    {[oneTime |-> a, selectors |-> s, offerLink |-> b[1], colorPrice |-> b[2], body |-> c] :
        a \in OneTimeOutcomes, s \in SelectorLists(MaxLive), b \in BuyingOutcomes,
        c \in BodyOutcomes}

BlankPage ==
    [oneTime |-> QNone, selectors |-> AllNone, offerLink |-> QNone, colorPrice |-> QNone,
     body |-> QText(<<>>)]
\* ---------------------------------------------------------------- state

VARIABLES
    \* extract_symprove_products
    pc,      \* where it is: "idle", "fetch", "loop", "returned", "raised"
    feed,    \* the "products" value of the document the endpoint serves
    resp,    \* the outcome of requests.get: "none", "exception", "non200", "ok"
    idx,     \* the position in products of the next iteration of the product loop
    rows,    \* the list rows
    \* extract_price
    ppc,       \* where it is: "idle", "run", "returned"
    page,      \* the document it queries
    step,      \* the strategy it evaluates next
    consulted, \* the strategies it has evaluated
    price,     \* its return value, None until it returns
    \* extract_amazon_products
    apc,       \* where it is: "idle", "next", "goto", "loadstate", "done"
    asins,     \* the list asins of the search page
    ai,        \* the position in asins of the iteration of the loop
    attempt,   \* safe_action's loop variable
    calls,     \* how often safe_action has invoked its action
    action,    \* what each invocation of safe_action's action comes to, <<>> outside a call
    saReturn,  \* safe_action: "idle", "running", or what it returned: "value", "none"
    gotoResult,\* whether goto got through: "pending", "loaded", "failed" (it raised each time)
    scraped,   \* the list scraped
    failed_asins \* the list failed_asins

feedVars == <<pc, feed, resp, idx, rows>>
priceVars == <<ppc, page, step, consulted, price>>
amazonVars == <<apc, asins, ai, attempt, calls, action, saReturn, gotoResult, scraped, failed_asins>>
vars == <<feedVars, priceVars, amazonVars>>

FeedIdle == pc = "idle" /\ feed = JMissing /\ resp = "none" /\ idx = 0 /\ rows = <<>>
PriceIdle == ppc = "idle" /\ page = BlankPage /\ step = 0 /\ consulted = {} /\ price = None
AmazonIdle ==
    /\ apc = "idle" /\ asins = <<>> /\ ai = 0 /\ attempt = 0 /\ calls = 0 /\ saReturn = "idle"
    /\ action = <<>>
    /\ gotoResult = "pending" /\ scraped = <<>> /\ failed_asins = <<>>

\* ------------------------------------- extract_symprove_products, as steps

FeedInit ==
    /\ pc = "fetch"
    /\ feed \in Feeds
    /\ resp = "none"
    /\ idx = 0
    /\ rows = <<>>
    /\ PriceIdle
    /\ AmazonIdle

\* requests.get raises: return [] (lines 363-367)
FetchFails ==
    /\ pc = "fetch"
    /\ resp' = "exception"
    /\ pc' = "returned"
    /\ UNCHANGED <<feed, idx, rows>>
    /\ UNCHANGED <<priceVars, amazonVars>>

\* status_code != 200: return [] (lines 368-370)
FetchNon200 ==
    /\ pc = "fetch"
    /\ resp' = "non200"
    /\ pc' = "returned"
    /\ UNCHANGED <<feed, idx, rows>>
    /\ UNCHANGED <<priceVars, amazonVars>>

\* a 200 response; iterating a null "products" raises TypeError (lines 372-376)
FetchOk ==
    /\ pc = "fetch"
    /\ resp' = "ok"
    /\ pc' = IF feed.k = "null" THEN "raised" ELSE "loop"
    /\ idx' = 1
    /\ UNCHANGED <<feed, rows>>
    /\ UNCHANGED <<priceVars, amazonVars>>

Current == FeedProducts(feed)[idx]
InLoop == pc = "loop" /\ idx <= Len(FeedProducts(feed))

\* one iteration of the product loop raises: the exception leaves the function
ProductRaises ==
    /\ InLoop
    /\ IterationRaises(Current)
    /\ pc' = "raised"
    /\ UNCHANGED <<feed, resp, idx, rows>>
    /\ UNCHANGED <<priceVars, amazonVars>>

\* a promotional product: continue (lines 379-380)
SkipPromotional ==
    /\ InLoop
    /\ IsPromotional(Current)
    /\ idx' = idx + 1
    /\ UNCHANGED <<pc, feed, resp, rows>>
    /\ UNCHANGED <<priceVars, amazonVars>>

\* a shot-glass product: one row per variant (lines 423-460)
ShotGlassProduct ==
    /\ InLoop
    /\ ~IterationRaises(Current)
    /\ ~IsPromotional(Current)
    /\ ShotGlassMatch(ProductName(Current))
    /\ rows' = rows \o ProductRows(Current)
    /\ idx' = idx + 1
    /\ UNCHANGED <<pc, feed, resp>>
    /\ UNCHANGED <<priceVars, amazonVars>>

\* any other product: one row per flavour group (lines 462-525)
GeneralProduct ==
    /\ InLoop
    /\ ~IterationRaises(Current)
    /\ ~IsPromotional(Current)
    /\ ~ShotGlassMatch(ProductName(Current))
    /\ rows' = rows \o ProductRows(Current)
    /\ idx' = idx + 1
    /\ UNCHANGED <<pc, feed, resp>>
    /\ UNCHANGED <<priceVars, amazonVars>>

\* the loop is over: return rows (line 526)
ReturnRows ==
    /\ pc = "loop"
    /\ idx > Len(FeedProducts(feed))
    /\ pc' = "returned"
    /\ UNCHANGED <<feed, resp, idx, rows>>
    /\ UNCHANGED <<priceVars, amazonVars>>

FeedNext ==
    \/ FetchFails
    \/ FetchNon200
    \/ FetchOk
    \/ ProductRaises
    \/ SkipPromotional
    \/ ShotGlassProduct
    \/ GeneralProduct
    \/ ReturnRows

SpecFeed == FeedInit /\ [][FeedNext]_vars

\* ------------------------------------------------ extract_price, as steps

PriceInit ==
    /\ ppc = "run"
    /\ page \in Pages
    /\ step = 0
    /\ consulted = {}
    /\ price = None
    /\ FeedIdle
    /\ AmazonIdle

\* an order that leaves out the buying-options strategy
NextStrategySkipsBuying(k) == IF k = NumSelectors THEN BodyStep ELSE k + 1

\* the strategy tried after strategy k has yielded nothing (the order of
\* lines 110, 135, 155 and 165)
NextStrategy(k) == k + 1

\* evaluate strategy k: return its yield, or go on; after the last one
\* return "N/A" (line 174)
Evaluate(k) ==
    /\ ppc = "run"
    /\ step = k
    /\ consulted' = consulted \cup {k}
    /\ IF StrategyYield(page, k) # None
       THEN price' = StrategyYield(page, k) /\ ppc' = "returned" /\ step' = step
       ELSE IF k = BodyStep
       THEN price' = Some(K_NA) /\ ppc' = "returned" /\ step' = step
       ELSE price' = price /\ ppc' = ppc /\ step' = NextStrategy(k)
    /\ UNCHANGED page
    /\ UNCHANGED <<feedVars, amazonVars>>

\* strategy 1 (lines 110-133)
OneTimeBlock ==
    /\ step = 0
    /\ Evaluate(0)

\* strategy 2, one selector of the list (lines 150-153)
TrySelectors ==
    /\ step \in 1..NumSelectors
    /\ Evaluate(step)

\* strategy 3 (lines 155-163)
SeeBuyingOptions ==
    /\ step = BuyingStep
    /\ Evaluate(BuyingStep)

\* strategy 4 and the final return (lines 165-174)
BodyScan ==
    /\ step = BodyStep
    /\ Evaluate(BodyStep)

PriceNext ==
    \/ OneTimeBlock
    \/ TrySelectors
    \/ SeeBuyingOptions
    \/ BodyScan

SpecPrice == PriceInit /\ [][PriceNext]_vars

\* --------------------------------------- extract_amazon_products, as steps

\* bound: the number of ASINs on the search page
MaxAsins == 2

Retries == 3
MinAsinLen == 5

\* an invocation of the action raises, returns a value or returns None
ActionOutcomes == {"raise", "value", "none"}
Actions == [1..Retries -> ActionOutcomes]
AllRaise(act) == \A i \in 1..Retries : act[i] = "raise"

AsinValues == {A_One, A_Two, A_Short}
\* list({...}): the distinct ASINs, in any order
AsinLists == {s \in SeqsUpTo(AsinValues, MaxAsins) : \A i, j \in 1..Len(s) : i # j => s[i] # s[j]}

\* the documents a product page may hold when it is queried
PricedPage == [BlankPage EXCEPT !.selectors[1] = QText(X_Price)]
ScrapePages == {BlankPage, PricedPage}

AmazonInit ==
    /\ apc = "next"
    /\ asins \in AsinLists
    /\ ai = 1
    /\ attempt = 0
    /\ calls = 0
    /\ action = <<>>
    /\ saReturn = "idle"
    /\ gotoResult = "pending"
    /\ scraped = <<>>
    /\ failed_asins = <<>>
    /\ FeedIdle
    /\ PriceIdle

Asin == asins[ai]
AtAsin == apc = "next" /\ ai <= Len(asins)
ValidAsin(a) == a # <<>> /\ Len(Strip(a)) >= MinAsinLen

\* lines 199-200: continue
SkipAsin ==
    /\ AtAsin
    /\ ~ValidAsin(Asin)
    /\ ai' = ai + 1
    /\ UNCHANGED <<apc, asins, attempt, calls, action, saReturn, gotoResult, scraped, failed_asins>>
    /\ UNCHANGED <<feedVars, priceVars>>

\* lines 204-209: the context and the page are made, safe_action(goto) starts
OpenPage ==
    /\ AtAsin
    /\ ValidAsin(Asin)
    /\ apc' = "goto"
    /\ attempt' = 1
    /\ calls' = 0
    /\ action' \in Actions
    /\ saReturn' = "running"
    /\ gotoResult' = "pending"
    /\ UNCHANGED <<asins, ai, scraped, failed_asins>>
    /\ UNCHANGED <<feedVars, priceVars>>

\* lines 204-208 raise: the except of line 291 records the ASIN
OpenPageRaises ==
    /\ AtAsin
    /\ ValidAsin(Asin)
    /\ failed_asins' = Append(failed_asins, Asin)
    /\ ai' = ai + 1
    /\ UNCHANGED <<apc, asins, attempt, calls, action, saReturn, gotoResult, scraped>>
    /\ UNCHANGED <<feedVars, priceVars>>

InSafeAction == apc \in {"goto", "loadstate"} /\ saReturn = "running" /\ attempt <= Retries

\* an order of the loop that ends one attempt early
AttemptsLeftButOne(n) == n < Retries - 1

\* for attempt in range(1, retries + 1): another attempt follows attempt n
AttemptsLeft(n) == n < Retries

\* safe_action: the action raises on this attempt (lines 35-39); after the
\* last attempt the loop ends and None is returned (line 40)
SafeActionRaises ==
    /\ InSafeAction
    /\ action[attempt] = "raise"
    /\ calls' = calls + 1
    /\ IF AttemptsLeft(attempt)
       THEN attempt' = attempt + 1 /\ saReturn' = saReturn
       ELSE attempt' = attempt /\ saReturn' = "none"
    /\ UNCHANGED <<apc, asins, ai, action, gotoResult, scraped, failed_asins>>
    /\ UNCHANGED <<feedVars, priceVars>>

\* safe_action: the action returns and its result is returned (line 36);
\* the result may be None, as that of wait_for_load_state is
SafeActionReturns ==
    /\ InSafeAction
    /\ action[attempt] # "raise"
    /\ calls' = calls + 1
    /\ saReturn' = action[attempt]
    /\ UNCHANGED <<apc, asins, ai, attempt, action, gotoResult, scraped, failed_asins>>
    /\ UNCHANGED <<feedVars, priceVars>>

\* lines 209-216: the result of safe_action(goto) is dropped, the wait for a
\* price node may time out, safe_action(wait_for_load_state) starts
WaitForPage ==
    /\ apc = "goto"
    /\ saReturn \in {"value", "none"}
    /\ gotoResult' = IF AllRaise(action) THEN "failed" ELSE "loaded"
    /\ apc' = "loadstate"
    /\ attempt' = 1
    /\ calls' = 0
    /\ action' \in Actions
    /\ saReturn' = "running"
    /\ UNCHANGED <<asins, ai, scraped, failed_asins>>
    /\ UNCHANGED <<feedVars, priceVars>>

ScrapedOffer(a, pg) ==
    [ASIN |-> a, URL |-> K_BaseUrl \o K_dp \o a, PriceRaw |-> ExtractPrice(pg)]

\* lines 219-289: every query of the page answers; the offer is appended
ScrapeAppends ==
    /\ apc = "loadstate"
    /\ saReturn \in {"value", "none"}
    /\ \E pg \in ScrapePages : scraped' = Append(scraped, ScrapedOffer(Asin, pg))
    /\ apc' = "next"
    /\ ai' = ai + 1
    /\ UNCHANGED <<asins, attempt, calls, action, saReturn, gotoResult, failed_asins>>
    /\ UNCHANGED <<feedVars, priceVars>>

\* lines 219-289: a query outside a try raises; the except of line 291
\* records the ASIN
ScrapeRaises ==
    /\ apc = "loadstate"
    /\ saReturn \in {"value", "none"}
    /\ failed_asins' = Append(failed_asins, Asin)
    /\ apc' = "next"
    /\ ai' = ai + 1
    /\ UNCHANGED <<asins, attempt, calls, action, saReturn, gotoResult, scraped>>
    /\ UNCHANGED <<feedVars, priceVars>>

\* the loop is over: return scraped, failed_asins (line 309)
ReturnScraped ==
    /\ apc = "next"
    /\ ai > Len(asins)
    /\ apc' = "done"
    /\ UNCHANGED <<asins, ai, attempt, calls, action, saReturn, gotoResult, scraped, failed_asins>>
    /\ UNCHANGED <<feedVars, priceVars>>

AmazonNext ==
    \/ SkipAsin
    \/ OpenPage
    \/ OpenPageRaises
    \/ SafeActionRaises
    \/ SafeActionReturns
    \/ WaitForPage
    \/ ScrapeAppends
    \/ ScrapeRaises
    \/ ReturnScraped

SpecAmazon == AmazonInit /\ [][AmazonNext]_vars

\* the function keeps running: a sleep ends and an invocation comes back
SpecAmazonFair == SpecAmazon /\ WF_vars(AmazonNext)

\* --------------------------------------------------------------- claims

\* the rows one step of extract_symprove_products appends
NewRows == SubSeq(rows', Len(rows) + 1, Len(rows'))
\* an iteration of the product loop runs to its end
IterationDone == InLoop /\ idx' = idx + 1

\* the name or the handle holds foc, marketing or pr as a whole word
HasPromoToken(prod) ==
    IF prod.title.k = "null" THEN FALSE
    ELSE IF prod.title.k = "str" /\ PromoMatch(prod.title.v) THEN TRUE
    ELSE prod.handle.k = "str" /\ PromoMatch(prod.handle.v)

\* the product is grouped by flavour: neither promotional nor a shot glass
OnGeneralPath(prod) ==
    IF HasPromoToken(prod) THEN FALSE ELSE ~ShotGlassMatch(ProductName(prod))

FlavourKeys(vl) == {FlavourKey(vl[i]) : i \in 1..Len(vl)}
GroupOf(vl, f) == SelectSeq(vl, LAMBDA v : FlavourKey(v) = f)
RowsFor(f) == {i \in 1..Len(NewRows) : NewRows[i].FlavourName = f}
HasPrice(text) == text # K_NA

L_18 == <<"£","1","8",".","0","0">>
L_20 == <<"£","2","0",".","0","0">>

\* C1: in every emitted row, purchase type "Both" comes with both prices
\* present (not "N/A"), and "One-time only" or "Subscription only" with
\* exactly one of the two present.
C1_PricesMatchPurchaseType ==
    \A i \in 1..Len(rows) :
        /\ rows[i].PurchaseType = K_Both =>
              HasPrice(rows[i].OneTimePrice) /\ HasPrice(rows[i].SubscriptionPrice)
        /\ rows[i].PurchaseType \in {K_OneOnly, K_SubOnly} =>
              HasPrice(rows[i].OneTimePrice) # HasPrice(rows[i].SubscriptionPrice)

VariantOrders(n) == {f \in [1..n -> 1..n] : \A i, j \in 1..n : f[i] = f[j] => i = j}
Permuted(prod, f) ==
    [prod EXCEPT !.variants = JList([i \in 1..Len(prod.variants.v) |-> prod.variants.v[f[i]]])]

\* C2: the set of rows a product yields is the same for every order of its
\* variant list.
C2_OrderIndependent ==
    [][IterationDone /\ Current.variants.k = "list" =>
         \A f \in VariantOrders(Len(Current.variants.v)) :
            SeqToSet(ProductRows(Permuted(Current, f))) = SeqToSet(NewRows)]_vars

\* C5: for a daily product on the general path that is not an on-the-go
\* product, every flavour group with exactly two distinct prices gets the
\* higher as subscription price and the lower as one-time price, whatever the
\* explicit flags say; "Daily Essential" with 20.00 and 18.00 yields
\* "£18.00", "£20.00" and "Both".
C5_DailyOverride ==
    [][IterationDone /\ OnGeneralPath(Current) /\ ProductIsDaily(Current)
          /\ ~OnTheGoMatch(ProductName(Current)) =>
         \A f \in FlavourKeys(VariantList(Current)) :
            LET prices == NonNullPrices(GroupOf(VariantList(Current), f))
            IN  Cardinality(prices) = 2 =>
                  /\ RowsFor(f) # {}
                  /\ \A i \in RowsFor(f) :
                        /\ NewRows[i].OneTimePrice = fmt(Some(SetMin(prices)))
                        /\ NewRows[i].SubscriptionPrice = fmt(Some(SetMax(prices)))
                        /\ (Current.title = JStr(T_DailyEssential) /\ prices = {1800, 2000}) =>
                              /\ NewRows[i].OneTimePrice = L_18
                              /\ NewRows[i].SubscriptionPrice = L_20
                              /\ NewRows[i].PurchaseType = K_Both]_vars

\* a daily product whose one group holds an explicit one-time variant at
\* 20.00 and an explicit subscription variant at 18.00 has been resolved to
\* one-time 18.00, subscription 20.00
C5_Witness ==
    /\ pc = "loop" /\ idx = 2 /\ Len(rows) = 1
    /\ FeedProducts(feed)[1].title = JStr(T_DailyEssential)
    /\ LET vl == VariantList(FeedProducts(feed)[1])
       IN  /\ Len(vl) = 2
           /\ vl[1].explicit_one /\ ~vl[1].explicit_sub /\ vl[1].price = Some(2000)
           /\ vl[2].explicit_sub /\ ~vl[2].explicit_one /\ vl[2].price = Some(1800)
    /\ rows[1].OneTimePrice = L_18
    /\ rows[1].SubscriptionPrice = L_20
    /\ rows[1].PurchaseType = K_Both

\* the text the pack of a shot-glass row is derived from: the first option
\* value that matches the pack pattern, else the variant title
C6_PackSource(v) ==
    LET vals == [i \in 1..Len(v.options) |-> v.options[i][2]]
        hits == {i \in 1..Len(vals) : vals[i] # <<>> /\ PackPatternMatch(vals[i])}
    IN  IF hits = {} THEN v.title
        ELSE Strip(vals[CHOOSE i \in hits : \A j \in hits : i <= j])

\* C6: a shot-glass product that is not promotional yields exactly one row
\* per variant, in "Pack-based" purchase type with no subscription price, the
\* one-time price of that variant, the flavour of its flavour-like option and
\* the pack of its first pack-like option value, else of its title.
C6_ShotGlassPerVariant ==
    [][IterationDone /\ ~HasPromoToken(Current) /\ ShotGlassMatch(ProductName(Current)) =>
         LET raw == IF Current.variants.k = "list" THEN Current.variants.v ELSE <<>>
             vl == VariantList(Current)
         IN  /\ Len(NewRows) = Len(raw)
             /\ \A i \in 1..Len(raw) :
                   /\ NewRows[i].PurchaseType = K_PackBased
                   /\ NewRows[i].SubscriptionPrice = K_NA
                   /\ NewRows[i].OneTimePrice = fmt(parse_float_safe(raw[i].price))
                   /\ FlavourOption(vl[i]) # <<>> => NewRows[i].FlavourName = FlavourOption(vl[i])
                   /\ NewRows[i].Pack = normalize_pack_text(C6_PackSource(vl[i]))]_vars

\* a shot-glass product with two variants of one flavour has yielded two rows
C6_Witness ==
    /\ pc = "loop" /\ idx = 2 /\ Len(rows) = 2
    /\ FeedProducts(feed)[1].title = JStr(T_ShotGlass)
    /\ rows[1].FlavourName = O_Mango /\ rows[2].FlavourName = O_Mango
    /\ rows[1].PurchaseType = K_PackBased /\ rows[2].PurchaseType = K_PackBased
    /\ rows[1].OneTimePrice # rows[2].OneTimePrice

\* C7: a product whose name or handle holds foc, marketing or pr as a whole
\* word adds no row, whatever its variants and its category, and the loop
\* goes on to the next product; no row of the output is of such a product.
C7_PromotionalExcluded ==
    [][/\ (InLoop /\ HasPromoToken(Current)) =>
             rows' = rows /\ pc' = "loop" /\ idx' = idx + 1
       /\ \A i \in 1..Len(rows') :
             ~PromoMatch(rows'[i].ProductName)
             /\ ~PromoMatch(SubSeq(rows'[i].URL, Len(K_UrlBase) + 1, Len(rows'[i].URL)))]_vars

\* a promotional product with variants was followed by another product, and
\* the returned rows are those of the other product alone
C7_Witness ==
    /\ pc = "returned" /\ resp = "ok"
    /\ Len(FeedProducts(feed)) = 2
    /\ HasPromoToken(FeedProducts(feed)[1])
    /\ FeedProducts(feed)[1].variants.k = "list"
    /\ Len(FeedProducts(feed)[1].variants.v) = MaxVariants
    /\ Len(rows) = 1
    /\ rows[1].URL = Url(FeedProducts(feed)[2])

\* C8: on the general path with no override (not on-the-go, and not daily
\* with two distinct prices), a group with explicit subscription variants
\* gets the maximum of their prices as subscription price, and a group with
\* explicit one-time variants the minimum of theirs as one-time price.
C8_ExplicitExtremes ==
    [][IterationDone /\ OnGeneralPath(Current) /\ ~OnTheGoMatch(ProductName(Current)) =>
         \A f \in FlavourKeys(VariantList(Current)) :
            LET g == GroupOf(VariantList(Current), f)
                subs == NonNullPrices(SelectSeq(g, LAMBDA v : v.explicit_sub))
                ones == NonNullPrices(SelectSeq(g, LAMBDA v : v.explicit_one))
            IN  ~(ProductIsDaily(Current) /\ Cardinality(NonNullPrices(g)) = 2) =>
                  \A i \in RowsFor(f) :
                     /\ subs # {} => NewRows[i].SubscriptionPrice = fmt(Some(SetMax(subs)))
                     /\ ones # {} => NewRows[i].OneTimePrice = fmt(Some(SetMin(ones)))]_vars

\* C9: every group of an on-the-go product on the general path gets no
\* subscription price, the minimum of the group's distinct prices as one-time
\* price and the purchase type "One-time (On The Go)", daily or not.
C9_OnTheGoOverride ==
    [][IterationDone /\ OnGeneralPath(Current) /\ OnTheGoMatch(ProductName(Current)) =>
         \A f \in FlavourKeys(VariantList(Current)) :
            LET prices == NonNullPrices(GroupOf(VariantList(Current), f))
            IN  /\ RowsFor(f) # {}
                /\ \A i \in RowsFor(f) :
                      /\ NewRows[i].SubscriptionPrice = K_NA
                      /\ NewRows[i].PurchaseType = K_OnTheGo
                      /\ prices # {} => NewRows[i].OneTimePrice = fmt(Some(SetMin(prices)))]_vars

\* C10: no exception leaves extract_symprove_products: a failed or non-200
\* fetch returns the empty list, and a 200 response is worked through to the
\* return, whatever fields of its products and variants are missing or null.
C10_NoExceptionEscapes ==
    /\ pc # "raised"
    /\ (pc = "returned" /\ resp \in {"exception", "non200"}) => rows = <<>>

\* C3: when safe_action(goto) has failed on every attempt, the ASIN is put on
\* failed_asins and no offer for it on scraped, and the loop goes on.
C3_LoadFailureRecorded ==
    [][(apc = "loadstate" /\ gotoResult = "failed" /\ ai' = ai + 1) =>
          /\ failed_asins' = Append(failed_asins, Asin)
          /\ scraped' = scraped
          /\ apc' = "next"]_vars

\* C4: extract_price returns the yield of the first strategy, in the order
\* one-time block, selectors in list order, buying options, body scan, that
\* yields anything, having evaluated no later one; it returns "N/A" exactly
\* when none yields; with nothing but a priced body, the first price of the
\* body.
C4_FirstSuccessWins ==
    ppc = "returned" =>
        LET yields == {k \in 0..BodyStep : StrategyYield(page, k) # None}
        IN  /\ price # None
            /\ (price = Some(K_NA)) <=> (yields = {})
            /\ yields = {} => consulted = 0..BodyStep
            /\ yields # {} =>
                  \A k \in yields : (\A j \in yields : k <= j) =>
                        price = StrategyYield(page, k) /\ consulted = 0..k
            /\ (yields = {BodyStep} /\ page.body = QText(X_Body)) =>
                  price = Some(<<"£","1","2",".","4","9">>)

\* a page where only the body holds a price: every strategy was evaluated
\* and the body's first price returned
C4_Witness ==
    /\ ppc = "returned"
    /\ page.body = QText(X_Body)
    /\ consulted = 0..BodyStep
    /\ price = Some(<<"£","1","2",".","4","9">>)
    /\ \E i \in 1..NumSelectors : page.selectors[i] # QNone

\* the group key of a variant as the grouping rule words it: the value of the
\* first flavour-like option that has one, else the leftmost known flavour
\* word of the combined text as it stands there, else "Default"
C11_Key(v) ==
    LET named == {i \in 1..Len(v.options) :
                    v.options[i][2] # <<>> /\ FlavourNameMatch(v.options[i][1])}
        m == FirstAlt(LowerStr(v.combined), FlavourWords)
    IN  IF named # {} THEN v.options[CHOOSE i \in named : \A j \in named : i <= j][2]
        ELSE IF m # <<>> THEN SubSeq(v.combined, m[1], m[1] + Len(m[2]) - 1)
        ELSE K_Default

\* C11: on the general path the flavour groups partition the variants: the
\* group of a key holds exactly the variants of that key, in list order, no
\* key has two groups, the key is the value of the first flavour-like option,
\* else the first known flavour word of the combined text, else "Default",
\* and one row is emitted per group, so that the rows are as many as the
\* distinct keys and carry those keys as flavour names.
C11_GroupingPartition ==
    [][IterationDone /\ OnGeneralPath(Current) =>
         LET vl == VariantList(Current)
             gs == Groups(Current)
             keys == {C11_Key(vl[i]) : i \in 1..Len(vl)}
         IN  /\ \A g \in 1..Len(gs) :
                   gs[g][2] = SelectSeq(vl, LAMBDA v : C11_Key(v) = gs[g][1])
             /\ \A g, h \in 1..Len(gs) : gs[g][1] = gs[h][1] => g = h
             /\ {gs[g][1] : g \in 1..Len(gs)} = keys
             /\ Len(NewRows) = Cardinality(keys)
             /\ {NewRows[i].FlavourName : i \in 1..Len(NewRows)} = keys]_vars

\* safe_action is being called, has returned
InCall == apc \in {"goto", "loadstate"}
Returned == InCall /\ saReturn \in {"value", "none"}
\* the first invocation that does not raise, if any
FirstReturning(act) ==
    {i \in 1..Retries : act[i] # "raise" /\ \A j \in 1..(i - 1) : act[j] = "raise"}

\* C12 as worded: safe_action invokes its action at most retries times,
\* returns the result of the first invocation that does not raise, having
\* made no invocation after it, and returns None exactly when all retries
\* invocations raised.
C12_NoneExactlyWhenExhausted ==
    /\ InCall => calls <= Retries
    /\ Returned =>
          /\ \A i \in FirstReturning(action) : saReturn = action[i] /\ calls = i
          /\ (saReturn = "none") <=> (AllRaise(action) /\ calls = Retries)

\* C12: safe_action ends every call, after at most retries invocations: when
\* an invocation does not raise it returns the result of the first such
\* invocation, None included, having made no invocation after it; when all
\* retries invocations raised it returns None; no exception leaves it.
C12_BoundedRetries ==
    /\ [](InCall => calls <= Retries)
    /\ [](Returned =>
            IF AllRaise(action) THEN saReturn = "none" /\ calls = Retries
            ELSE \A i \in FirstReturning(action) : saReturn = action[i] /\ calls = i)
    /\ (saReturn = "running") ~> (saReturn # "running")

\* the first invocation raised and the second returned None: safe_action has
\* returned None after two invocations, with a third one that would succeed
\* never made
C12_Witness ==
    /\ apc = "loadstate"
    /\ action = <<"raise", "none", "value">>
    /\ saReturn = "none"
    /\ calls = 2

====
